---- MODULE Spec2Model ----
(***************************************************************************)
(* A model of the colour raster engine of the Netpbm package (type PPM):   *)
(* the P3/P6 codec (ReadPPM, Save), pixel access, the drawing primitives   *)
(* and the resampler.  Bytes are the integers 0..255; a file is a sequence *)
(* of bytes; a buffer is a record with the fields of the Go struct, its    *)
(* pixel grid a sequence of rows (data[y+1][x+1] is Go's data[y][x]).      *)
(***************************************************************************)
EXTENDS Integers, Sequences, FiniteSets, TLC

VARIABLES ppm,      \* the buffer the program holds, or Nil
          file,     \* the bytes of the image file on disk
          src,      \* where the bytes of file come from (an input or a Save)
          call,     \* the last call made: its name and arguments
          pre,      \* the buffer as it was when the last call was made
          ret,      \* what the last call gave back: err, panic, value
          plotted,  \* the points the last call handed to SetPixel, in order
          loop,     \* the locals of a DrawLine that is running, or Nil
          stdout,   \* the lines printed to standard output
          left,     \* the calls a sequence of calls may still make
          stack,    \* the frames of a fractal that is running, outermost first
          leaves    \* the drawing calls the running fractal has made

vars == <<ppm, file, src, call, pre, ret, plotted, loop, stdout, left, stack,
          leaves>>

(***************************************************************************)
(* Bounds of the model.                                                    *)
(***************************************************************************)
MaxDim == 2        \* small buffers are 1..MaxDim wide and high
BigDim == 40       \* side of the buffers whose file exceeds the read buffer
MinCoord == 2      \* drawing coordinates range over -MinCoord..MaxCoord
MaxCoord == 4
MaxSize == 4       \* rectangle sizes, resize targets, fractal sizes
CanvasDim == 3     \* side of the drawing canvas
MaxDepth == 1      \* depth of the fractals

Nil == [nil |-> TRUE]

Min(a, b) == IF a < b THEN a ELSE b
Max(a, b) == IF a > b THEN a ELSE b

(***************************************************************************)
(* type Pixel, type PPM                                                    *)
(***************************************************************************)
Pixel(r, g, b) == [R |-> r, G |-> g, B |-> b]

PPM(data, width, height, magicNumber, max) ==
    [data |-> data, width |-> width, height |-> height,
     magicNumber |-> magicNumber, max |-> max]

(***************************************************************************)
(* Errors are the format string of the source with its arguments.          *)
(***************************************************************************)
Errorf(text, args) == [text |-> text, args |-> args]
NoErr == Errorf("", <<>>)

(***************************************************************************)
(* Text as bytes: the magic numbers, decimal formatting (%d of Fprintf),   *)
(* strings.TrimSpace, strings.Fields and the %d of fmt.Sscanf.             *)
(***************************************************************************)
MagicBytes(m) ==
    CASE m = "P3" -> <<80, 51>>
      [] m = "P6" -> <<80, 54>>
      [] m = "P5" -> <<80, 53>>
      [] OTHER -> <<>>

RECURSIVE Itoa(_)
Itoa(n) ==
    IF n < 0 THEN <<45>> \o Itoa(-n)
    ELSE IF n < 10 THEN <<48 + n>>
    ELSE Itoa(n \div 10) \o <<48 + (n % 10)>>

IsDigit(b) == b \in 48..57

\* unicode.IsSpace, on a rune in its UTF-8 encoding r: the ASCII spaces (tab
\* to carriage return, space), U+0085, U+00A0, U+1680, U+2000..U+200A,
\* U+2028, U+2029, U+202F, U+205F and U+3000.
IsSpace(r) ==
    r \in {<<b>> : b \in (9..13) \cup {32}}
           \cup {<<194, b>> : b \in {133, 160}}
           \cup {<<226, 128, b>> : b \in (128..138) \cup {168, 169, 175}}
           \cup {<<225, 154, 128>>, <<226, 129, 159>>, <<227, 128, 128>>}

\* Whether byte i of s belongs to a space rune.  The first byte of a
\* multi-byte encoding is never a byte inside another one, so a space rune
\* is found wherever its encoding stands, whether s is decoded from the left
\* (Fields, Sscanf, the front of TrimSpace) or from the right (its end).
SpaceAt(s, i) ==
    \E a \in (i - 2)..i, b \in i..(i + 2) :
        a >= 1 /\ b <= Len(s) /\ IsSpace(SubSeq(s, a, b))

\* strings.TrimSpace: s without the space runes it starts and ends with.
TrimSpace(s) ==
    LET Trim(keep) ==
            IF keep = {} THEN <<>>
            ELSE SubSeq(s, CHOOSE i \in keep : \A j \in keep : i <= j,
                           CHOOSE i \in keep : \A j \in keep : i >= j)
    IN Trim({i \in 1..Len(s) : ~SpaceAt(s, i)})

\* strings.Fields: the maximal runs of bytes of s that hold no space rune,
\* in order.  A run starts at a byte that follows a space or the start of s.
Fields(s) ==
    LET Nth(S, k) == CHOOSE i \in S : Cardinality({j \in S : j < i}) = k - 1
        Runs(starts, ends) ==
            [k \in 1..Cardinality(starts) |->
                SubSeq(s, Nth(starts, k), Nth(ends, k))]
        Split(sp) ==
            Runs({i \in 1..Len(s) : i \notin sp /\ (i = 1 \/ (i - 1) \in sp)},
                 {i \in 1..Len(s) :
                    i \notin sp /\ (i = Len(s) \/ (i + 1) \in sp)})
    IN Split({i \in 1..Len(s) : SpaceAt(s, i)})

\* (*ss).SkipSpace of a Sscanf: the space runes s starts with are dropped.
\* A newline among them is an error ("unexpected newline"): it is left at
\* the head of the result, where no number starts.
SkipSpace(s) ==
    LET From(i) == IF i > Len(s) THEN <<>> ELSE SubSeq(s, i, Len(s))
    IN From(CHOOSE i \in 1..(Len(s) + 1) :
               /\ \A j \in 1..(i - 1) : s[j] # 10 /\ SpaceAt(s, j)
               /\ i = Len(s) + 1 \/ s[i] = 10 \/ ~SpaceAt(s, i))

\* The length of the run of decimal digits s starts with, and its value.
RECURSIVE DigitsLen(_)
DigitsLen(s) ==
    IF s = <<>> \/ ~IsDigit(Head(s)) THEN 0 ELSE 1 + DigitsLen(Tail(s))

RECURSIVE DigitsValue(_, _)
DigitsValue(s, acc) ==
    IF s = <<>> \/ ~IsDigit(Head(s)) THEN acc
    ELSE DigitsValue(Tail(s), acc * 10 + (Head(s) - 48))

\* The range check of strconv.ParseInt and ParseUint: whether the number the
\* digit run at the head of s stands for is at most the one of the digits
\* max.  Zeros in front of the run do not count.
AtMost(s, max) ==
    LET Fits(sig) ==
            \/ Len(sig) < Len(max)
            \/ /\ Len(sig) = Len(max)
               /\ \A i \in 1..Len(max) :
                     (\A j \in 1..(i - 1) : sig[j] = max[j]) => sig[i] <= max[i]
        Run(n) ==
            Fits(SubSeq(s, CHOOSE i \in 1..(n + 1) :
                              /\ \A j \in 1..(i - 1) : s[j] = 48
                              /\ i = n + 1 \/ s[i] # 48, n))
    IN Run(DigitsLen(s))

(***************************************************************************)
(* An int of the source has 64 bits, an integer of the model fewer.  A     *)
(* length or a size that ReadPPM scans and computes with is therefore kept *)
(* as a long: <<a, b, c>> stands for a * 10^14 + b * 10^7 + c, with b and  *)
(* c below 10^7.  Longs are not negative.                                  *)
(***************************************************************************)
Long(n) == <<0, n \div 10000000, n % 10000000>>

LongLess(m, n) ==
    \/ m[1] < n[1]
    \/ m[1] = n[1] /\ m[2] < n[2]
    \/ m[1] = n[1] /\ m[2] = n[2] /\ m[3] < n[3]

\* n * k for a small k
LongTimes(n, k) ==
    LET Carry(c) ==
            LET Up(b) == <<n[1] * k + b \div 10000000, b % 10000000,
                           c % 10000000>>
            IN Up(n[2] * k + c \div 10000000)
    IN Carry(n[3] * k)

\* make([]T, len) for a T of size bytes: runtime.makeslice panics when the
\* bytes asked for are more than the 2^48 = 281474976710656 the runtime can
\* address.  An allocation it accepts, of less than 2140000000 bytes, is
\* served; a larger one is served when the system has the memory (mem), and
\* otherwise the runtime ends the program, which is told as a panic is.
makeslice(len, size, mem) ==
    LET Bytes(n) ==
            IF LongLess(<<2, 8147497, 6710656>>, n)
            THEN "runtime error: makeslice: len out of range"
            ELSE IF ~mem /\ ~(n[1] = 0 /\ n[2] < 214)
            THEN "fatal error: runtime: out of memory"
            ELSE ""
    IN Bytes(LongTimes(len, size))

\* %d into an int: spaces, an optional sign, digits that stand for a number
\* of 64 bits, 9223372036854775807 at most and -9223372036854775808 at
\* least.  rest is what follows, spaces the number of bytes of the spaces
\* skipped.  long is the number without its sign, minus its sign, and val
\* the number itself when it is one of the integers of the model (below
\* 2140000000), and then small holds.
ScanInt(s) ==
    LET \* the digits of u in the group k of seven, from the right
        Group(u, n, k) == DigitsValue(SubSeq(u, Max(1, n - 7 * k + 1),
                                             n - 7 * (k - 1)), 0)
        Value(t, u, n, minus, ok, l) ==
            [ok |-> ok, long |-> l, minus |-> minus /\ l # <<0, 0, 0>>,
             small |-> l[1] = 0 /\ l[2] < 214,
             val |-> IF l[1] # 0 \/ l[2] >= 214 THEN 0
                     ELSE IF minus THEN -(l[2] * 10000000 + l[3])
                     ELSE l[2] * 10000000 + l[3],
             rest |-> SubSeq(u, n + 1, Len(u)),
             spaces |-> Len(s) - Len(t)]
        Checked(t, u, n, minus, ok) ==
            Value(t, u, n, minus, ok,
                  IF ok THEN <<Group(u, n, 3), Group(u, n, 2), Group(u, n, 1)>>
                  ELSE <<0, 0, 0>>)
        \* "9223372036854775808" and "9223372036854775807"
        Run(t, u, n, minus) ==
            Checked(t, u, n, minus,
                    n > 0 /\ AtMost(u, <<57, 50, 50, 51, 51, 55, 50, 48, 51, 54,
                                         56, 53, 52, 55, 55, 53, 56, 48>>
                                       \o (IF minus THEN <<56>> ELSE <<55>>)))
        Unsigned(t, u, minus) == Run(t, u, DigitsLen(u), minus)
        Number(t) ==
            IF t # <<>> /\ Head(t) \in {43, 45}
            THEN Unsigned(t, Tail(t), Head(t) = 45)
            ELSE Unsigned(t, t, FALSE)
    IN Number(SkipSpace(s))

\* %d into a uint8: spaces, digits, no sign, 255 at most.
ScanUint8(s) ==
    LET Checked(t, n, ok) ==
            [ok |-> ok, val |-> IF ok THEN DigitsValue(t, 0) ELSE 0,
             rest |-> SubSeq(t, n + 1, Len(t))]
        Run(t, n) == Checked(t, n, n > 0 /\ AtMost(t, <<50, 53, 53>>))
        Number(t) == Run(t, DigitsLen(t))
    IN Number(SkipSpace(s))

(***************************************************************************)
(* bufio.Reader over the file, as ReadPPM makes it with bufio.NewReader:   *)
(* a buffer of BufSize bytes.  A reader is [pos, w]: pos bytes of the file *)
(* have been handed out, w bytes have been fetched from the file, so the   *)
(* buffer holds the bytes pos+1..w.                                        *)
(***************************************************************************)
BufSize == 4096

\* reader.ReadString('\n'): the bytes up to and with the next newline; it
\* refills the buffer (one read of the file each time) until it finds one,
\* and at the end of the file gives what is left with io.EOF.  nl is the
\* index of the first newline the buffer holds, or 0.
RECURSIVE ReadStringFrom(_, _, _)
ReadStringFrom(f, rd, acc) ==
    LET Found(nl, got) ==
            IF nl # 0
            THEN [line |-> acc \o SubSeq(f, rd.pos + 1, nl),
                  rd |-> [pos |-> nl, w |-> rd.w], eof |-> FALSE]
            ELSE IF rd.w - rd.pos >= BufSize
            THEN ReadStringFrom(f, [pos |-> rd.w, w |-> rd.w], acc \o got)
            ELSE IF rd.w = Len(f)
            THEN [line |-> acc \o got, rd |-> [pos |-> rd.w, w |-> rd.w],
                  eof |-> TRUE]
            ELSE ReadStringFrom(f, [pos |-> rd.pos,
                                    w |-> Min(Len(f), rd.pos + BufSize)], acc)
    IN Found(IF \E i \in (rd.pos + 1)..rd.w : f[i] = 10
             THEN CHOOSE i \in (rd.pos + 1)..rd.w :
                     f[i] = 10 /\ \A j \in (rd.pos + 1)..(i - 1) : f[j] # 10
             ELSE 0,
             SubSeq(f, rd.pos + 1, rd.w))

ReadString(f, rd) == ReadStringFrom(f, rd, <<>>)

\* reader.Read(p) with len(p) = n, a long: what the buffer holds, at most
\* n bytes; with the buffer empty, one read of the file (straight into p
\* when p is at least as large as the buffer).  n is the number of bytes
\* given.
Read(f, rd, n) ==
    LET AtMostN(k) == IF LongLess(Long(k), n) THEN k
                      ELSE n[2] * 10000000 + n[3]
        \* c bytes from the offset lo of the file, the buffer then filled to w
        Given(lo, c, w) ==
            [n |-> c, bytes |-> SubSeq(f, lo + 1, lo + c),
             rd |-> [pos |-> lo + c, w |-> w], eof |-> FALSE]
        Direct(c) == Given(rd.w, c, rd.w + c)
    IN IF rd.pos < rd.w
       THEN Given(rd.pos, AtMostN(rd.w - rd.pos), rd.w)
       ELSE IF rd.w = Len(f)
       THEN [n |-> 0, bytes |-> <<>>, rd |-> rd, eof |-> TRUE]
       ELSE IF ~LongLess(n, Long(BufSize))
       THEN Direct(AtMostN(Len(f) - rd.w))
       ELSE Given(rd.w, AtMostN(Min(Len(f), rd.w + BufSize) - rd.w),
                  Min(Len(f), rd.w + BufSize))

(***************************************************************************)
(* ReadPPM: the pixel rows of the textual (P3) variant.                    *)
(***************************************************************************)
\* One pixel of a row, from the fields of its line: r, g and b are the scans
\* of its three fields, made one after the other.
ScanPixel(fields, x, y) ==
    LET Blue(r, g, b) ==
            IF ~b.ok
            THEN [err |-> Errorf("error parsing Blue value at row %d, column %d: %v",
                                 <<y, x>>), pixel |-> Nil]
            ELSE [err |-> NoErr, pixel |-> Pixel(r.val, g.val, b.val)]
        Green(r, g) ==
            IF ~g.ok
            THEN [err |-> Errorf("error parsing Green value at row %d, column %d: %v",
                                 <<y, x>>), pixel |-> Nil]
            ELSE Blue(r, g, ScanUint8(fields[x * 3 + 3]))
        Red(r) ==
            IF ~r.ok
            THEN [err |-> Errorf("error parsing Red value at row %d, column %d: %v",
                                 <<y, x>>), pixel |-> Nil]
            ELSE Green(r, ScanUint8(fields[x * 3 + 2]))
    IN Red(ScanUint8(fields[x * 3 + 1]))

RECURSIVE ScanRow(_, _, _, _, _)
ScanRow(fields, x, y, width, rowData) ==
    LET Scanned(p) ==
            IF p.err # NoErr THEN [err |-> p.err, rowData |-> <<>>]
            ELSE ScanRow(fields, x + 1, y, width, Append(rowData, p.pixel))
    IN IF ~LongLess(Long(x), width.long)
       THEN [err |-> NoErr, rowData |-> rowData]
       ELSE IF x * 3 + 2 >= Len(fields)
       THEN [err |-> Errorf("index out of range at row %d, column %d", <<y, x>>),
             rowData |-> <<>>]
       ELSE Scanned(ScanPixel(fields, x, y))

\* l is the line read for row y, row the pixels scanned from its fields
\* into rowData, a slice of width pixels of three bytes.
RECURSIVE ReadRowsP3(_, _, _, _, _, _, _)
ReadRowsP3(f, rd, y, width, height, data, mem) ==
    LET Scanned(l, row) ==
            IF row.err # NoErr
            THEN [err |-> row.err, data |-> <<>>, panic |-> ""]
            ELSE ReadRowsP3(f, l.rd, y + 1, width, height,
                            Append(data, row.rowData), mem)
        \* p is what make([]Pixel, width) does
        Row(l, p) ==
            IF p # ""
            THEN [err |-> NoErr, data |-> <<>>, panic |-> p]
            ELSE Scanned(l, ScanRow(Fields(l.line), 0, y, width, <<>>))
        Line(l) ==
            IF l.eof
            THEN [err |-> Errorf("error reading data at row %d: %v", <<y>>),
                  data |-> <<>>, panic |-> ""]
            ELSE Row(l, makeslice(width.long, 3, mem))
    IN IF ~LongLess(Long(y), height.long)
       THEN [err |-> NoErr, data |-> data, panic |-> ""]
       ELSE Line(ReadString(f, rd))

(***************************************************************************)
(* ReadPPM: the pixel rows of the binary (P6) variant, one Read per row.   *)
(***************************************************************************)
\* The product width*expectedBytesPerPixel is an int of 64 bits: from 2^63 =
\* 9223372036854775808 on it is negative, and the length of no slice; from
\* 2^64 = 18446744073709551616 on it is the product less 2^64.  length is
\* the length of row, buffer what make([]byte, length) does, r what the one
\* Read of row y returned into row, pixels what make([]Pixel, width) does.
\* Row y is read when none of the tests of the loop ends it; Ended is what
\* the first test that ends it gives.
RECURSIVE ReadRowsP6(_, _, _, _, _, _, _)
ReadRowsP6(f, rd, y, width, height, data, mem) ==
    LET Less2to64(n) ==
            LET Borrow(c) ==
                    LET Down(b) == <<n[1] - 184467 - (IF b < 0 THEN 1 ELSE 0),
                                     (b + 10000000) % 10000000,
                                     (c + 10000000) % 10000000>>
                    IN Down(n[2] - 4407370 - (IF c < 0 THEN 1 ELSE 0))
            IN Borrow(n[3] - 9551616)
        Wrapped(n) ==
            IF LongLess(n, <<184467, 4407370, 9551616>>) THEN n
            ELSE Less2to64(n)
        Made(n) ==
            IF /\ ~LongLess(n, <<92233, 7203685, 4775808>>)
               /\ LongLess(n, <<184467, 4407370, 9551616>>)
            THEN "runtime error: makeslice: len out of range"
            ELSE makeslice(Wrapped(n), 1, mem)
        length == Wrapped(LongTimes(width.long, 3))
        buffer == Made(LongTimes(width.long, 3))
        r == Read(f, rd, length)
        pixels == makeslice(width.long, 3, mem)
        \* the %d of a long: the integer it is when it is one of the model
        Arg(n) == IF n[1] = 0 /\ n[2] < 214 THEN n[2] * 10000000 + n[3] ELSE n
        RowOfBytes(row) ==
            [x \in 1..width.val |->
                Pixel(row[(x - 1) * 3 + 1], row[(x - 1) * 3 + 2],
                      row[(x - 1) * 3 + 3])]
        Ended ==
            IF ~LongLess(Long(y), height.long)
            THEN [err |-> NoErr, data |-> data, panic |-> ""]
            ELSE IF buffer # ""
            THEN [err |-> NoErr, data |-> <<>>, panic |-> buffer]
            ELSE IF r.eof
            THEN [err |-> Errorf("unexpected end of file at row %d", <<y>>),
                  data |-> <<>>, panic |-> ""]
            ELSE IF LongLess(Long(r.n), length)
            THEN [err |-> Errorf("unexpected end of file at row %d, expected %d bytes, got %d",
                                 <<y, Arg(length), r.n>>),
                  data |-> <<>>, panic |-> ""]
            ELSE [err |-> NoErr, data |-> <<>>, panic |-> pixels]
    IN IF /\ LongLess(Long(y), height.long)
          /\ buffer = ""
          /\ ~r.eof
          /\ ~LongLess(Long(r.n), length)
          /\ pixels = ""
       THEN ReadRowsP6(f, r.rd, y + 1, width, height,
                       Append(data, RowOfBytes(r.bytes)), mem)
       ELSE Ended

(***************************************************************************)
(* ReadPPM(filename): the buffer decoded from the file, or nil and an      *)
(* error.  Three lines of header (magic number, dimensions, max value),    *)
(* then the rows.  Each step names what it has read as the argument of a   *)
(* local operator: l a line, then what was scanned from it.                *)
(***************************************************************************)
\* data is a slice of height slices, of 24 bytes each.  width and height
\* are what ReadDimensions scanned: the long and, in a buffer, the val.
\* mem tells whether the system has the memory of a large allocation.
ReadPixels(f, rd, magic, width, height, max, mem) ==
    LET Image(rows) ==
            IF rows.err # NoErr \/ rows.panic # ""
            THEN [img |-> Nil, err |-> rows.err, panic |-> rows.panic]
            ELSE [img |-> PPM(rows.data, width.val, height.val, magic, max),
                  err |-> NoErr, panic |-> ""]
        \* p is what make([][]Pixel, height) does
        Data(p) ==
            IF p # ""
            THEN [img |-> Nil, err |-> NoErr, panic |-> p]
            ELSE IF magic = "P3"
            THEN Image(ReadRowsP3(f, rd, 0, width, height, <<>>, mem))
            ELSE Image(ReadRowsP6(f, rd, 0, width, height, <<>>, mem))
    IN Data(makeslice(height.long, 24, mem))

ReadMaxValue(f, rd, magic, width, height, mem) ==
    LET Scanned(l, m) ==
            IF ~m.ok
            THEN [img |-> Nil, err |-> Errorf("invalid max value: %v", <<>>),
                  panic |-> ""]
            ELSE ReadPixels(f, l.rd, magic, width, height, m.val, mem)
        Line(l) ==
            IF l.eof
            THEN [img |-> Nil,
                  err |-> Errorf("error reading max value: %v", <<>>),
                  panic |-> ""]
            ELSE Scanned(l, ScanUint8(TrimSpace(l.line)))
    IN Line(ReadString(f, rd))

\* Sscanf with "%d %d": w and h are the scans of the two numbers.  After the
\* first number the space of the format needs a space rune in the input
\* (h.spaces > 0; a newline fails the scan of h); at the end of the input
\* the second %d fails.  What follows the second number is ignored.
ReadDimensions(f, rd, magic, mem) ==
    LET Scanned(l, w, h) ==
            IF ~w.ok \/ h.spaces = 0 \/ ~h.ok
            THEN [img |-> Nil, err |-> Errorf("invalid dimensions: %v", <<>>),
                  panic |-> ""]
            ELSE IF w.minus \/ w.long = Long(0) \/ h.minus \/ h.long = Long(0)
            THEN [img |-> Nil,
                  err |-> Errorf("invalid dimensions: width and height must be positive",
                                 <<>>),
                  panic |-> ""]
            ELSE ReadMaxValue(f, l.rd, magic, w, h, mem)
        Width(l, w) == Scanned(l, w, ScanInt(w.rest))
        Line(l) ==
            IF l.eof
            THEN [img |-> Nil,
                  err |-> Errorf("error reading dimensions: %v", <<>>),
                  panic |-> ""]
            ELSE Width(l, ScanInt(TrimSpace(l.line)))
    IN Line(ReadString(f, rd))

ReadPPMFile(f, mem) ==
    LET Magic(l, m) ==
            IF m # MagicBytes("P3") /\ m # MagicBytes("P6")
            THEN [img |-> Nil, err |-> Errorf("invalid magic number: %s", <<m>>),
                  panic |-> ""]
            ELSE ReadDimensions(f, l.rd,
                                IF m = MagicBytes("P3") THEN "P3" ELSE "P6",
                                mem)
        Line(l) ==
            IF l.eof
            THEN [img |-> Nil,
                  err |-> Errorf("error reading magic number: %v", <<>>),
                  panic |-> ""]
            ELSE Magic(l, TrimSpace(l.line))
    IN Line(ReadString(f, [pos |-> 0, w |-> 0]))     \* bufio.NewReader(file)

(***************************************************************************)
(* Save(filename): the bytes written for a buffer.  The file is created    *)
(* (emptied) before the magic number is looked at.                         *)
(***************************************************************************)
\* The bytes written for the pixels x.. of a row, in order: those of the
\* pixels lo..hi are those of its first half, then those of its second.
SaveRow(magic, row, x) ==
    LET PixelBytes(pixel) ==
            IF magic = "P6" THEN <<pixel.R, pixel.G, pixel.B>>
            ELSE Itoa(pixel.R) \o <<32>> \o Itoa(pixel.G) \o <<32>>
                 \o Itoa(pixel.B) \o <<32>>
        RECURSIVE Pixels(_, _)
        Pixels(lo, hi) ==
            IF lo > hi THEN <<>>
            ELSE IF lo = hi THEN PixelBytes(row[lo])
            ELSE Pixels(lo, (lo + hi) \div 2) \o Pixels((lo + hi) \div 2 + 1, hi)
    IN Pixels(x, Len(row)) \o (IF magic = "P3" THEN <<10>> ELSE <<>>)

\* The bytes written for the rows y.. of a buffer, likewise.
SaveRows(p, y) ==
    LET RECURSIVE Rows(_, _)
        Rows(lo, hi) ==
            IF lo > hi THEN <<>>
            ELSE IF lo = hi
            THEN SaveRow(p.magicNumber, SubSeq(p.data[lo], 1, p.width), 1)
            ELSE Rows(lo, (lo + hi) \div 2) \o Rows((lo + hi) \div 2 + 1, hi)
    IN Rows(y, p.height)

SaveHeader(p) ==
    MagicBytes(p.magicNumber) \o <<10>> \o Itoa(p.width) \o <<32>>
    \o Itoa(p.height) \o <<10>> \o Itoa(p.max) \o <<10>>

SaveFile(p) ==
    IF p.magicNumber = "P6" \/ p.magicNumber = "P3"
    THEN [bytes |-> SaveHeader(p) \o SaveRows(p, 1), err |-> NoErr]
    ELSE [bytes |-> <<>>, err |-> Errorf("magic number error", <<>>)]

(***************************************************************************)
(* Pixel access: At, Set (both panic outside the canvas) and SetPixel      *)
(* (which skips a point outside the canvas).                               *)
(***************************************************************************)
Point(x, y) == [X |-> x, Y |-> y]

InCanvas(buf, x, y) == x >= 0 /\ x < buf.width /\ y >= 0 /\ y < buf.height

\* ppm.data[y][x] = value, for an index the grid has.
Store(buf, x, y, value) == [buf EXCEPT !.data[y + 1][x + 1] = value]

\* Set with its upper bounds off by one (x > width for x >= width).
Set_OffByOne(buf, x, y, value) ==
    IF x < 0 \/ x > buf.width \/ y < 0 \/ y > buf.height
    THEN [buf |-> buf, panic |-> "Index out of bounds"]
    ELSE [buf |-> Store(buf, x, y, value), panic |-> ""]

Set(buf, x, y, value) ==
    IF x < 0 \/ x >= buf.width \/ y < 0 \/ y >= buf.height
    THEN [buf |-> buf, panic |-> "Index out of bounds"]
    ELSE [buf |-> Store(buf, x, y, value), panic |-> ""]

SetPixel(buf, p, color) ==
    IF p.X >= 0 /\ p.X < buf.width /\ p.Y >= 0 /\ p.Y < buf.height
    THEN Store(buf, p.X, p.Y, color)
    ELSE buf

(***************************************************************************)
(* DrawLine.  LineStart is the locals before the loop, LineStep one pass   *)
(* of the loop after its SetPixel and its test of the end point.  A        *)
(* drawing is [buf, plotted]: the buffer and the points given to SetPixel. *)
(***************************************************************************)
DrawLinetool(x) == IF x < 0 THEN -x ELSE x

LineStart(p1, p2) ==
    LET dx == DrawLinetool(p2.X - p1.X)
        dy == DrawLinetool(p2.Y - p1.Y)
    IN [x1 |-> p1.X, y1 |-> p1.Y, x2 |-> p2.X, y2 |-> p2.Y,
        dx |-> dx, dy |-> dy,
        sx |-> IF p1.X < p2.X THEN 1 ELSE -1,
        sy |-> IF p1.Y < p2.Y THEN 1 ELSE -1,
        err |-> dx - dy]

LineAtEnd(s) == s.x1 = s.x2 /\ s.y1 = s.y2

LineStep(s) ==
    LET e2 == 2 * s.err
        movex == e2 > -s.dy
        movey == e2 < s.dx
    IN [s EXCEPT !.err = s.err - (IF movex THEN s.dy ELSE 0)
                          + (IF movey THEN s.dx ELSE 0),
                 !.x1 = IF movex THEN s.x1 + s.sx ELSE s.x1,
                 !.y1 = IF movey THEN s.y1 + s.sy ELSE s.y1]

\* Statements run in order: d is the drawing the statements so far have made,
\* e the drawing the rest makes of it.
After(d, e) == IF d # Nil THEN e ELSE d

Plot(d, p, color) ==
    [buf |-> SetPixel(d.buf, p, color), plotted |-> Append(d.plotted, p)]

RECURSIVE LineLoop(_, _, _)
LineLoop(d, s, color) ==
    LET d2 == Plot(d, Point(s.x1, s.y1), color)
    IN IF LineAtEnd(s) THEN d2 ELSE After(d2, LineLoop(d2, LineStep(s), color))

DrawLine(d, p1, p2, color) == LineLoop(d, LineStart(p1, p2), color)

DrawTriangle(d, p1, p2, p3, color) ==
    LET d1 == DrawLine(d, p1, p2, color)
        d2 == DrawLine(d1, p2, p3, color)
    IN After(d1, After(d2, DrawLine(d2, p3, p1, color)))

(***************************************************************************)
(* DrawFilledRectangle.  The loops index ppm.data directly: an index the   *)
(* grid does not have panics, with the pixels stored before it kept.       *)
(***************************************************************************)
\* The cells one row of the rectangle stores to, in order.
RectRowCells(buf, p1, width, y) ==
    IF p1.X + width < buf.width
    THEN [i \in 1..Max(0, width + 1) |-> Point(p1.X + i - 1, y)]
    ELSE IF p1.X + width > buf.width
    THEN [i \in 1..Max(0, buf.width - p1.X) |-> Point(p1.X + i - 1, y)]
    ELSE <<>>

RECURSIVE RectCells(_, _, _, _, _)
RectCells(buf, p1, width, y, yEnd) ==
    IF y >= yEnd THEN <<>>
    ELSE RectRowCells(buf, p1, width, y) \o RectCells(buf, p1, width, y + 1, yEnd)

RECURSIVE StoreAll(_, _, _, _)
StoreAll(buf, cells, i, color) ==
    IF i > Len(cells) THEN [buf |-> buf, panic |-> ""]
    ELSE IF ~InCanvas(buf, cells[i].X, cells[i].Y)
    THEN [buf |-> buf, panic |-> "index out of range"]
    ELSE StoreAll(Store(buf, cells[i].X, cells[i].Y, color), cells, i + 1, color)

DrawFilledRectangle(buf, p1, width, height, color) ==
    IF p1.Y + height < buf.height
    THEN StoreAll(buf, RectCells(buf, p1, width, p1.Y, p1.Y + height), 1, color)
    ELSE IF p1.Y + height > buf.height
    THEN StoreAll(buf, RectCells(buf, p1, width, p1.Y, buf.height), 1, color)
    ELSE [buf |-> buf, panic |-> ""]

(***************************************************************************)
(* Arithmetic of the source on small integers.  Go's / on ints and its     *)
(* int(float) both drop the fraction (round toward zero).  The float       *)
(* products with Sqrt(3), Cos(Pi/3) and Sin(Pi/3) are the reals            *)
(* (a + b*Sqrt(3))/2, which are integers only when b = 0, so their integer *)
(* part is computed exactly from the integer square root.                  *)
(***************************************************************************)
Quo(a, b) == IF (a >= 0) = (b > 0) THEN DrawLinetool(a) \div DrawLinetool(b)
             ELSE -(DrawLinetool(a) \div DrawLinetool(b))

ISqrt(n) == CHOOSE r \in 0..n : r * r <= n /\ (r + 1) * (r + 1) > n

\* floor(k * Sqrt(3))
FloorSqrt3(k) == IF k >= 0 THEN ISqrt(3 * k * k) ELSE -ISqrt(3 * k * k) - 1

\* int((a + b*Sqrt(3)) / 2)
TruncHalf(a, b) ==
    IF b = 0 THEN Quo(a, 2)
    ELSE LET F == a + FloorSqrt3(b)
         IN IF F >= 0 THEN F \div 2 ELSE (F \div 2) + 1

(***************************************************************************)
(* DrawKochSnowflake and its recursion KochSnowflake.                      *)
(***************************************************************************)
RECURSIVE KochSnowflake(_, _, _, _, _)
KochSnowflake(d, n, point1, point2, color) ==
    IF n = 0 THEN DrawLine(d, point1, point2, color)
    ELSE LET p_1 == Point(point1.X + Quo(point2.X - point1.X, 3),
                          point1.Y + Quo(point2.Y - point1.Y, 3))
             p_2 == Point(point1.X + Quo(2 * (point2.X - point1.X), 3),
                          point1.Y + Quo(2 * (point2.Y - point1.Y), 3))
             ax == p_1.X - p_2.X
             ay == p_1.Y - p_2.Y
             \* ax*cos - ay*sin and ax*sin + ay*cos, for the angle Pi/3
             p3 == Point(TruncHalf(ax, -ay) + p_2.X, TruncHalf(ay, ax) + p_2.Y)
             d1 == KochSnowflake(d, n - 1, point1, p_1, color)
             d2 == KochSnowflake(d1, n - 1, p_1, p3, color)
             d3 == KochSnowflake(d2, n - 1, p3, p_2, color)
         IN After(d1, After(d2, After(d3,
                KochSnowflake(d3, n - 1, p_2, point2, color))))

\* The three corners DrawKochSnowflake builds from start and size.
KochBase(start, size) ==
    LET height == TruncHalf(0, size)
    IN <<start, Point(start.X + size, start.Y),
         Point(start.X + Quo(size, 2), start.Y + height)>>

\* DrawKochSnowflake with its third edge closed on point2 instead of point1.
DrawKochSnowflake_WrongClose(d, n, start, size, color) ==
    LET b == KochBase(start, size)
        d1 == KochSnowflake(d, n, b[1], b[2], color)
        d2 == KochSnowflake(d1, n, b[2], b[3], color)
    IN After(d1, After(d2, KochSnowflake(d2, n, b[3], b[2], color)))

DrawKochSnowflake(d, n, start, size, color) ==
    LET b == KochBase(start, size)
        d1 == KochSnowflake(d, n, b[1], b[2], color)
        d2 == KochSnowflake(d1, n, b[2], b[3], color)
    IN After(d1, After(d2, KochSnowflake(d2, n, b[3], b[1], color)))

(***************************************************************************)
(* KNearestNeighbors (the resize) with findKNearestNeighbors and           *)
(* averageColors.  int(float64(x)*scaleX) is x*width/newWidth without its  *)
(* fraction; the two agree for every size up to the bounds of the model.   *)
(***************************************************************************)
findKNearestNeighbors(buf, x, y) ==
    LET cells == [k \in 1..9 |-> Point(x + ((k - 1) % 3) - 1, y + ((k - 1) \div 3) - 1)]
        inside == SelectSeq(cells, LAMBDA c : c.X >= 0 /\ c.X < buf.width
                                             /\ c.Y >= 0 /\ c.Y < buf.height)
    IN [k \in 1..Len(inside) |-> buf.data[inside[k].Y + 1][inside[k].X + 1]]

RECURSIVE SumChannel(_, _, _)
SumChannel(pixels, i, ch) ==
    IF i > Len(pixels) THEN 0 ELSE pixels[i][ch] + SumChannel(pixels, i + 1, ch)

\* averageColors dividing by the size of a full neighbourhood.
averageColors_Nine(pixels) ==
    [panic |-> "",
     pixel |-> Pixel((SumChannel(pixels, 1, "R") \div 9) % 256,
                     (SumChannel(pixels, 1, "G") \div 9) % 256,
                     (SumChannel(pixels, 1, "B") \div 9) % 256)]

averageColors(pixels) ==
    LET count == Len(pixels)
    IN IF count = 0 THEN [panic |-> "integer divide by zero", pixel |-> Nil]
       ELSE [panic |-> "",
             pixel |-> Pixel((SumChannel(pixels, 1, "R") \div count) % 256,
                             (SumChannel(pixels, 1, "G") \div count) % 256,
                             (SumChannel(pixels, 1, "B") \div count) % 256)]

ResizedPixel(buf, x, y, newWidth, newHeight) ==
    LET originalX == (x * buf.width) \div newWidth
        originalY == (y * buf.height) \div newHeight
    IN averageColors(findKNearestNeighbors(buf, originalX, originalY))

\* The resize proper: lines 567-584.
Resized(buf, newWidth, newHeight) ==
    LET px == [y \in 1..newHeight |-> [x \in 1..newWidth |->
                  ResizedPixel(buf, x - 1, y - 1, newWidth, newHeight)]]
    IN IF \E y \in 1..newHeight, x \in 1..newWidth : px[y][x].panic # ""
       THEN [buf |-> buf, out |-> <<>>, panic |-> "integer divide by zero"]
       ELSE [buf |-> [buf EXCEPT
                        !.data = [y \in 1..newHeight |->
                                    [x \in 1..newWidth |-> px[y][x].pixel]],
                        !.width = newWidth, !.height = newHeight],
             out |-> <<>>, panic |-> ""]

KNearestNeighbors(buf, newWidth, newHeight) ==
    IF newWidth <= 0 \/ newHeight <= 0
    THEN [buf |-> buf, out |-> <<"Invalid dimensions for resizing.">>, panic |-> ""]
    ELSE Resized(buf, newWidth, newHeight)

(***************************************************************************)
(* Invert, Flip, Flop, SetMaxValue, Rotate90CW.  A conversion of a float   *)
(* the target type cannot hold succeeds in Go with a result the            *)
(* implementation chooses: arch names the implementation (the amd64 and    *)
(* the arm64 compilers; both convert to a 32-bit integer and keep its low  *)
(* byte, amd64 making 0x80000000 and arm64 the nearest integer of what it  *)
(* cannot hold, 0 of a NaN).                                               *)
(***************************************************************************)
Archs == {"amd64", "arm64"}

Invert(buf) ==
    [buf EXCEPT !.data = [y \in 1..buf.height |-> [x \in 1..buf.width |->
        Pixel(255 - buf.data[y][x].R, 255 - buf.data[y][x].G,
              255 - buf.data[y][x].B)]]]

\* Flip swaps column x with column width-x-1 in every row.
Flip(buf) ==
    [buf EXCEPT !.data = [y \in 1..buf.height |-> [x \in 1..buf.width |->
        buf.data[y][buf.width + 1 - x]]]]

\* Flop swaps row y with row height-y-1.
Flop(buf) ==
    [buf EXCEPT !.data = [y \in 1..buf.height |-> buf.data[buf.height + 1 - y]]]

\* uint8(float64(c) * float64(maxValue) / float64(max))
ScaleChannel(c, maxValue, max, arch) ==
    IF max # 0 THEN ((c * maxValue) \div max) % 256
    ELSE IF c * maxValue = 0 THEN 0               \* 0/0, a NaN
    ELSE IF arch = "amd64" THEN 0 ELSE 255        \* +Inf

SetMaxValue(buf, maxValue, arch) ==
    [buf EXCEPT !.data = [y \in 1..buf.height |-> [x \in 1..buf.width |->
        Pixel(ScaleChannel(buf.data[y][x].R, maxValue, buf.max, arch),
              ScaleChannel(buf.data[y][x].G, maxValue, buf.max, arch),
              ScaleChannel(buf.data[y][x].B, maxValue, buf.max, arch))]],
                 !.max = maxValue]

\* Rotate90CW that keeps width and height as they were.
Rotate90CW_NoSwap(buf) ==
    [buf EXCEPT !.data = [i \in 1..buf.width |-> [j \in 1..buf.height |->
        buf.data[buf.height + 1 - j][i]]]]

\* newPPM.data[x][height-y-1] = ppm.data[y][x]
Rotate90CW(buf) ==
    PPM([i \in 1..buf.width |-> [j \in 1..buf.height |->
            buf.data[buf.height + 1 - j][i]]],
        buf.height, buf.width, buf.magicNumber, buf.max)

(***************************************************************************)
(* DrawPerlinNoise on a buffer at most 50 wide and high.  perlinNoiseTools *)
(* truncates its arguments x * 0.02 and y * 0.02, which are below 1 for    *)
(* x, y < 50: n is 0, the hashed value is 1376312589 and the noise is      *)
(* 1 - (1376312589 / 2^30 + 1) / 2 = -302570765 / 2^31.  normalValue,      *)
(* (noise * ampl + ampl) / (2 * ampl), is then the float64                 *)
(* 1844912883 / 2^32 for every pixel, kept here as                         *)
(* (hi * 2^16 + lo) / 2^32.                                                *)
(***************************************************************************)
\* uint8(float64(a) * (1 - t) + float64(b) * t) on each channel: the float64
\* sum truncates to the floor of a + (b - a) * t.
intColors(color1, color2, t) ==
    LET Mix(a, b) ==
            a + (((b - a) * t.hi + ((b - a) * t.lo) \div 65536) \div 65536)
    IN Pixel(Mix(color1.R, color2.R), Mix(color1.G, color2.G),
             Mix(color1.B, color2.B))

\* Every pixel is written with ppm.Set(x, y, intColor), x < width and
\* y < height.
DrawPerlinNoise(buf, color1, color2) ==
    LET normalValue == [hi |-> 28151, lo |-> 8947]
    IN [buf EXCEPT !.data = [y \in 1..buf.height |-> [x \in 1..buf.width |->
           intColors(color1, color2, normalValue)]]]

(***************************************************************************)
(* The outlines: DrawRectangle and DrawPolygon.  DrawPolygon indexes       *)
(* points[len(points)-1], which panics when points is empty.               *)
(***************************************************************************)
Drawing(buf) == [buf |-> buf, plotted |-> <<>>]

DrawRectangle(d, p1, width, height, color) ==
    LET p2 == Point(p1.X + width, p1.Y)
        p3 == Point(p1.X, p1.Y + height)
        p4 == Point(p1.X + width, p1.Y + height)
        d1 == DrawLine(d, p1, p2, color)
        d2 == DrawLine(d1, p2, p4, color)
        d3 == DrawLine(d2, p4, p3, color)
    IN After(d1, After(d2, After(d3, DrawLine(d3, p3, p1, color))))

RECURSIVE PolygonEdges(_, _, _, _)
PolygonEdges(d, points, i, color) ==
    IF i >= Len(points) THEN d
    ELSE LET d1 == DrawLine(d, points[i], points[i + 1], color)
         IN After(d1, PolygonEdges(d1, points, i + 1, color))

DrawPolygon(d, points, color) ==
    LET d1 == PolygonEdges(d, points, 1, color)
    IN IF points = <<>>
       THEN [buf |-> d.buf, plotted |-> d.plotted,
             panic |-> "index out of range [-1]"]
       ELSE LET d2 == After(d1, DrawLine(d1, points[Len(points)], points[1], color))
            IN [buf |-> d2.buf, plotted |-> d2.plotted, panic |-> ""]

(***************************************************************************)
(* DrawCircle and DrawFilledCircle.  A pixel is on the circle when         *)
(* |Sqrt(dx*dx + dy*dy) - radius*0.85| < 0.5, which for the radii of the   *)
(* model is 17*radius - 10 < 20*Sqrt(dx*dx + dy*dy) < 17*radius + 10.      *)
(***************************************************************************)
OnCircle(x, y, center, radius) ==
    LET d2 == (x - center.X) * (x - center.X) + (y - center.Y) * (y - center.Y)
        lo == 17 * radius - 10
        hi == 17 * radius + 10
    IN /\ lo < 0 \/ lo * lo < 400 * d2
       /\ hi > 0 /\ 400 * d2 < hi * hi

DrawCircle(buf, center, radius, color) ==
    [buf EXCEPT !.data = [y \in 1..buf.height |-> [x \in 1..buf.width |->
        IF OnCircle(x - 1, y - 1, center, radius) THEN color
        ELSE buf.data[y][x]]]]

RECURSIVE DrawFilledCircle(_, _, _, _)
DrawFilledCircle(buf, center, radius, color) ==
    IF radius >= 0
    THEN DrawFilledCircle(DrawCircle(buf, center, radius, color), center,
                          radius - 1, color)
    ELSE buf

(***************************************************************************)
(* DrawFilledPolygon: the outline, then in every row the pixels between    *)
(* the first and the last pixel of the colour.                             *)
(***************************************************************************)
FillRow(row, color) ==
    LET positions == {j \in 1..Len(row) : row[j] = color}
    IN IF Cardinality(positions) > 1
       THEN [k \in 1..Len(row) |->
               IF \E a \in positions, b \in positions : a < k /\ k < b
               THEN color ELSE row[k]]
       ELSE row

DrawFilledPolygon(d, points, color) ==
    LET o == DrawPolygon(d, points, color)
    IN IF o.panic # "" THEN o
       ELSE [o EXCEPT !.buf.data = [i \in 1..o.buf.height |->
                                      FillRow(SubSeq(o.buf.data[i], 1, o.buf.width),
                                              color)]]

(***************************************************************************)
(* 64-bit ints.  A float that is not finite converts to an int the         *)
(* implementation chooses: amd64 makes the smallest int of it, arm64 the   *)
(* nearest int (the largest of +Inf, the smallest of -Inf) and 0 of a NaN. *)
(* The ints a DrawLine then computes with wrap around modulo 2^64, so an   *)
(* int is written [k, v] for the int that is k * 2^63 + v modulo 2^64,     *)
(* with k in {0, 1} and v small: v itself when k = 0, v - 2^63 when k = 1  *)
(* and v >= 0, v + 2^63 when k = 1 and v < 0.                              *)
(***************************************************************************)
Wide(n) == [k |-> 0, v |-> n]

WideAdd(a, b) == [k |-> (a.k + b.k) % 2, v |-> a.v + b.v]
WideSub(a, b) == [k |-> (a.k + b.k) % 2, v |-> a.v - b.v]
WideNeg(a) == [k |-> a.k, v |-> -a.v]

\* a < b as signed ints: the ints near the smallest, then the ints near 0,
\* then the ints near the largest.
WideLess(a, b) ==
    LET Rank(c) == IF c.k = 0 THEN 1 ELSE IF c.v >= 0 THEN 0 ELSE 2
    IN \/ Rank(a) < Rank(b)
       \/ Rank(a) = Rank(b) /\ a.v < b.v

WideAbs(a) == IF WideLess(a, Wide(0)) THEN WideNeg(a) ELSE a

(***************************************************************************)
(* DrawLine on 64-bit ints: the same statements as LineStart and LineStep. *)
(* A line to an end point that is not near 0 does not end in any number of *)
(* passes a run can wait for: the model follows it for MaxPasses passes.   *)
(***************************************************************************)
MaxPasses == 6

WideLineStart(p1, p2) ==
    LET dx == WideAbs(WideSub(p2.X, p1.X))
        dy == WideAbs(WideSub(p2.Y, p1.Y))
    IN [x1 |-> p1.X, y1 |-> p1.Y, x2 |-> p2.X, y2 |-> p2.Y,
        dx |-> dx, dy |-> dy,
        sx |-> IF WideLess(p1.X, p2.X) THEN Wide(1) ELSE Wide(-1),
        sy |-> IF WideLess(p1.Y, p2.Y) THEN Wide(1) ELSE Wide(-1),
        err |-> WideSub(dx, dy)]

WideLineStep(s) ==
    LET e2 == WideAdd(s.err, s.err)
        movex == WideLess(WideNeg(s.dy), e2)
        movey == WideLess(e2, s.dx)
        err1 == IF movex THEN WideSub(s.err, s.dy) ELSE s.err
    IN [s EXCEPT !.err = IF movey THEN WideAdd(err1, s.dx) ELSE err1,
                 !.x1 = IF movex THEN WideAdd(s.x1, s.sx) ELSE s.x1,
                 !.y1 = IF movey THEN WideAdd(s.y1, s.sy) ELSE s.y1]

\* A point is recorded with the integers of its coordinates that are near 0.
WidePlot(d, x, y, color) ==
    LET Narrow(a) == IF a.k = 0 THEN a.v ELSE a
    IN [buf |-> IF x.k = 0 /\ y.k = 0
                THEN SetPixel(d.buf, Point(x.v, y.v), color) ELSE d.buf,
        plotted |-> Append(d.plotted, Point(Narrow(x), Narrow(y)))]

RECURSIVE WideLineLoop(_, _, _, _)
WideLineLoop(d, s, color, passes) ==
    LET d2 == WidePlot(d, s.x1, s.y1, color)
    IN IF s.x1 = s.x2 /\ s.y1 = s.y2
       THEN [buf |-> d2.buf, plotted |-> d2.plotted, hung |-> FALSE]
       ELSE IF passes >= MaxPasses
       THEN [buf |-> d2.buf, plotted |-> d2.plotted, hung |-> TRUE]
       ELSE After(d2, WideLineLoop(d2, WideLineStep(s), color, passes + 1))

WideDrawLine(d, p1, p2, color) ==
    IF p1.X.k = 0 /\ p2.X.k = 0 /\ p1.Y.k = 0 /\ p2.Y.k = 0
    THEN LET d2 == DrawLine(d, Point(p1.X.v, p1.Y.v), Point(p2.X.v, p2.Y.v), color)
         IN [buf |-> d2.buf, plotted |-> d2.plotted, hung |-> FALSE]
    ELSE WideLineLoop(d, WideLineStart(p1, p2), color, 1)

(***************************************************************************)
(* DrawFilledTriangle and FilledTriangleTools.  A float64 is its class     *)
(* (finite, NaN, +Inf, -Inf) and, when finite, the fraction num/den the    *)
(* expression is in exact arithmetic, with short: whether that fraction is *)
(* an integer and the float64 the code computes lies between it and zero.  *)
(* The rounding errors are far smaller than 1/den, so the integer part of  *)
(* the float64 is the one of the fraction, or one closer to zero when the  *)
(* float64 is short.  The quotient and the product are rounded to the      *)
(* nearest float64 and so is the sum; the arm64 compiler fuses the product *)
(* and the sum into one instruction that rounds once.                      *)
(***************************************************************************)
\* The float64 nearest to N + t (ties to the even one), as its distance from
\* N: N is a nonzero integer, t a fraction [num, den] of a unit, and 2^g
\* units the distance from N to the next float64 away from zero.  Towards
\* zero the next float64 of a power of two is half as far.
RoundNear(N, t, g) ==
    LET sign == IF N > 0 THEN 1 ELSE -1
        Nearest(away, h) ==
            LET A == (IF away THEN sign ELSE -sign) * t.num * 2^Max(-h, 0)
                B == t.den * 2^Max(h, 0)
                Even(c, rem) ==
                    IF 2 * rem < B \/ (2 * rem = B /\ c % 2 = 0) THEN c
                    ELSE c + 1
            IN [num |-> (IF away THEN sign ELSE -sign)
                        * Even(A \div B, A % B) * 2^Max(h, 0),
                den |-> 2^Max(-h, 0)]
    IN IF sign * t.num >= 0 THEN Nearest(TRUE, g)
       ELSE IF \E e \in 0..30 : N = sign * 2^e THEN Nearest(FALSE, g - 1)
       ELSE Nearest(FALSE, g)

\* float64(p1.X) + float64(y-p1.Y)*(float64(p2.X-p1.X)/float64(p2.Y-p1.Y))
FilledTriangleTools(p1, p2, y, arch) ==
    LET dx == p2.X - p1.X
        dy == p2.Y - p1.Y
        k == y - p1.Y
        Abs(i) == IF i < 0 THEN -i ELSE i
        \* The largest e with 2^e <= n / d.
        FloorLog2(n, d) ==
            IF n >= d THEN Cardinality({e \in 1..30 : 2^e <= n \div d})
            ELSE -Cardinality({e \in 0..30 : 2^e < (d + n - 1) \div n})
        \* The error of the quotient float64(n) / float64(d), in d-ths of the
        \* unit 2^(lx - 52), the distance between the float64 around it.
        \* 2^(52 - lx) is taken modulo d as the product of three powers.
        QuoError(n, d, lx) ==
            LET Round(r) == IF 2 * r < d THEN -r ELSE d - r
                Pow2(e) == 2^e % d
                Pow3(e) == (((Pow2(e) * Pow2(e)) % d) * Pow2(52 - lx - 2 * e)) % d
            IN Round((n * Pow3((52 - lx) \div 3)) % d)
        \* Whether the sum falls short of N, the integer it is exactly: the
        \* error of the quotient, k times, is rounded with the product k * x
        \* and then with the sum on amd64, with the sum only on arm64.
        Short(N, lx) ==
            LET t == [num |-> k * (IF (dx > 0) = (dy > 0) THEN 1 ELSE -1)
                                * QuoError(Abs(dx), Abs(dy), lx),
                      den |-> Abs(dy)]
                Sum(e) == RoundNear(N, e, FloorLog2(Abs(N), 1) - lx).num
                              * N < 0
            IN IF arch = "arm64" THEN Sum(t)
               ELSE Sum(RoundNear(N - p1.X, t,
                                  FloorLog2(Abs(N - p1.X), 1) - lx))
    IN IF dy # 0
       THEN [class |-> "finite", num |-> p1.X * dy + k * dx, den |-> dy,
             short |-> /\ (k * dx) % Abs(dy) = 0
                       /\ dx % Abs(dy) # 0       \* or the quotient is exact
                       /\ k * dx # 0
                       /\ p1.X * dy + k * dx # 0
                       /\ Short(Quo(p1.X * dy + k * dx, dy),
                                FloorLog2(Abs(dx), Abs(dy)))]
       ELSE [class |-> IF dx = 0 \/ k = 0 THEN "NaN"
                       ELSE IF (dx > 0) = (k > 0) THEN "+Inf" ELSE "-Inf",
             num |-> 0, den |-> 0, short |-> FALSE]

\* int(f)
ToInt(f, arch) ==
    IF f.class = "finite"
    THEN Wide(Quo(f.num, f.den)
              - (IF ~f.short THEN 0 ELSE IF (f.num > 0) = (f.den > 0) THEN 1
                 ELSE -1))
    ELSE IF arch = "amd64" THEN [k |-> 1, v |-> 0]          \* -2^63
    ELSE IF f.class = "NaN" THEN Wide(0)
    ELSE IF f.class = "+Inf" THEN [k |-> 1, v |-> -1]       \* 2^63 - 1
    ELSE [k |-> 1, v |-> 0]                                  \* -2^63

\* sort.Slice on three elements is an insertion sort: a vertex moves in
\* front of the vertices whose Y is larger than its own.
SortVertices(p1, p2, p3) ==
    LET s == IF p2.Y < p1.Y THEN <<p2, p1>> ELSE <<p1, p2>>
    IN IF p3.Y < s[1].Y THEN <<p3, s[1], s[2]>>
       ELSE IF p3.Y < s[2].Y THEN <<s[1], p3, s[2]>>
       ELSE <<s[1], s[2], p3>>

\* The loop over the scanlines: the two intersections as the code computes
\* them, and the line between them.  nonfinite tells that one of the
\* intersections so far was not finite (a division by zero).
RECURSIVE FillLoop(_, _, _, _, _)
FillLoop(d, vertices, y, color, arch) ==
    IF y > vertices[3].Y THEN d
    ELSE LET x1 == FilledTriangleTools(vertices[1], vertices[3], y, arch)
             x2 == FilledTriangleTools(vertices[2], vertices[3], y, arch)
             l == WideDrawLine(d, Point(ToInt(x1, arch), Wide(y)),
                               Point(ToInt(x2, arch), Wide(y)), color)
             d2 == [buf |-> l.buf, plotted |-> l.plotted, hung |-> l.hung,
                    nonfinite |-> d.nonfinite \/ x1.class # "finite"
                                  \/ x2.class # "finite"]
         IN IF d2.hung THEN d2
            ELSE FillLoop(d2, vertices, y + 1, color, arch)

DrawFilledTriangle(d, p1, p2, p3, color, arch) ==
    LET vertices == SortVertices(p1, p2, p3)
    IN FillLoop([buf |-> d.buf, plotted |-> d.plotted, hung |-> FALSE,
                 nonfinite |-> FALSE],
                vertices, vertices[1].Y, color, arch)

(***************************************************************************)
(* The recursions call by call.  A frame is one call of DrawKochSnowflake, *)
(* KochSnowflake, DrawSierpinskiTriangle or sierpinskiTools that has not   *)
(* returned: its depth argument n, its points, and pc, the number of calls *)
(* it has made that have returned.                                         *)
(***************************************************************************)
Frame(fn, n, points) == [fn |-> fn, n |-> n, points |-> points, pc |-> 0]

\* The calls a frame makes, in order.
KochCalls(point1, point2) ==
    LET p_1 == Point(point1.X + Quo(point2.X - point1.X, 3),
                     point1.Y + Quo(point2.Y - point1.Y, 3))
        p_2 == Point(point1.X + Quo(2 * (point2.X - point1.X), 3),
                     point1.Y + Quo(2 * (point2.Y - point1.Y), 3))
        ax == p_1.X - p_2.X
        ay == p_1.Y - p_2.Y
        p3 == Point(TruncHalf(ax, -ay) + p_2.X, TruncHalf(ay, ax) + p_2.Y)
    IN << <<point1, p_1>>, <<p_1, p3>>, <<p3, p_2>>, <<p_2, point2>> >>

SierpinskiBase(start, width) ==
    LET height == TruncHalf(0, width)
    IN <<start, Point(start.X + width, start.Y),
         Point(start.X + Quo(width, 2), start.Y + height)>>

SierpinskiCalls(p1, p2, p3) ==
    LET mid1 == Point(Quo(p1.X + p2.X, 2), Quo(p1.Y + p2.Y, 2))
        mid2 == Point(Quo(p2.X + p3.X, 2), Quo(p2.Y + p3.Y, 2))
        mid3 == Point(Quo(p3.X + p1.X, 2), Quo(p3.Y + p1.Y, 2))
    IN << <<p3, mid2, mid3>>, <<mid2, mid1, p2>>, <<mid1, p1, mid3>> >>

Calls(f) ==
    CASE f.fn = "DrawKochSnowflake" ->
            LET b == f.points
            IN [i \in 1..3 |->
                  Frame("KochSnowflake", f.n, <<b[i], b[(i % 3) + 1]>>)]
      [] f.fn = "KochSnowflake" ->
            IF f.n = 0 THEN <<>>
            ELSE [i \in 1..4 |->
                    Frame("KochSnowflake", f.n - 1,
                          KochCalls(f.points[1], f.points[2])[i])]
      [] f.fn = "DrawSierpinskiTriangle" ->
            <<Frame("sierpinskiTools", f.n, f.points)>>
      [] f.fn = "sierpinskiTools" ->
            IF f.n = 0 THEN <<>>
            ELSE [i \in 1..3 |->
                    Frame("sierpinskiTools", f.n - 1,
                          SierpinskiCalls(f.points[1], f.points[2], f.points[3])[i])]

\* A call that draws: KochSnowflake and sierpinskiTools with n = 0.
IsLeaf(f) == f.fn \in {"KochSnowflake", "sierpinskiTools"} /\ f.n = 0

\* The stack after its top frame has returned.
Popped(s) ==
    IF Len(s) = 1 THEN <<>>
    ELSE [SubSeq(s, 1, Len(s) - 1) EXCEPT ![Len(s) - 1].pc = @ + 1]

(***************************************************************************)
(* The inputs of the model: colours, points, buffers and image files.      *)
(***************************************************************************)
Palette == {Pixel(255, 10, 0), Pixel(7, 32, 10)}
Paper == Pixel(255, 10, 0)
Ink == Pixel(1, 2, 3)
Maxes == {15, 255}

Coords == (-MinCoord)..MaxCoord
Points == {Point(x, y) : x \in Coords, y \in Coords}
Corners == {Point(x, y) : x \in {-MinCoord, 1, MaxCoord}, y \in {-MinCoord, 1, MaxCoord}}
Sizes == (-1)..MaxSize

Grids(w, h) == [1..h -> [1..w -> Palette]]

SmallBuffers(magics, maxes) ==
    UNION {{PPM(g, w, h, m, mx) : g \in Grids(w, h), m \in magics, mx \in maxes}
           : w \in 1..MaxDim, h \in 1..MaxDim}

Blank(w, h, color) == PPM([y \in 1..h |-> [x \in 1..w |-> color]], w, h, "P3", 255)

BigBuffers(magics) == {[Blank(BigDim, BigDim, c) EXCEPT !.magicNumber = m]
                         : c \in Palette, m \in magics}

Canvases == {Blank(w, h, Paper) : w \in 1..CanvasDim, h \in 1..CanvasDim}

\* An image file as a program other than this one may have written it: the
\* header of buf with a comment line after the magic number (1 in comments)
\* and after the dimensions (2 in comments), then the first n bytes of the
\* pixels of buf.
CommentLine == <<35, 32, 99, 10>>

InputFile(in) ==
    LET b == in.buf
        region == SaveRows(b, 1)
    IN MagicBytes(b.magicNumber) \o <<10>>
       \o (IF 1 \in in.comments THEN CommentLine ELSE <<>>)
       \o Itoa(b.width) \o <<32>> \o Itoa(b.height) \o <<10>>
       \o (IF 2 \in in.comments THEN CommentLine ELSE <<>>)
       \o Itoa(b.max) \o <<10>>
       \o SubSeq(region, 1, in.n)

Input(buf, n, comments) == [kind |-> "input", buf |-> buf, n |-> n, comments |-> comments]

Inputs ==
    UNION {{Input(b, n, {}) : n \in 0..(b.width * b.height * 3)}
           : b \in SmallBuffers({"P6"}, {255})}
    \cup {Input(b, Len(SaveRows(b, 1)), c)
           : b \in SmallBuffers({"P3", "P6"}, {255}), c \in (SUBSET {1, 2}) \ {{}}}
    \cup {Input(b, b.width * b.height * 3 - k, {})
           : b \in BigBuffers({"P6"}), k \in {0, 1}}

(***************************************************************************)
(* The state machine.  A run starts with a buffer in memory or an image    *)
(* file on disk and makes one call on it (a Save may be followed by a      *)
(* ReadPPM of the file it wrote; a DrawLine runs pass by pass of its       *)
(* loop); call, pre, ret and plotted record the call for the properties    *)
(* below.                                                                  *)
(***************************************************************************)
NoCall == [op |-> "none"]
NoSrc == [kind |-> "none"]
Returned(err, panic) == [err |-> err, panic |-> panic, done |-> TRUE]
Running == [err |-> NoErr, panic |-> "", done |-> FALSE]

StartRun(buf, f, s, n) ==
    /\ ppm = buf
    /\ file = f
    /\ src = s
    /\ call = NoCall
    /\ pre = Nil
    /\ ret = Running
    /\ plotted = <<>>
    /\ loop = Nil
    /\ stdout = <<>>
    /\ left = n
    /\ stack = <<>>
    /\ leaves = 0

Start(buf, f, s) == StartRun(buf, f, s, 0)

InitCodec ==
    \/ \E b \in SmallBuffers({"P3", "P6"}, Maxes) \cup BigBuffers({"P6"}) :
          Start(b, <<>>, NoSrc)
    \/ \E in \in Inputs : Start(Nil, InputFile(in), in)
    \* files whose dimensions no image of the model has: the digits of 1,
    \* 20000000000000, 100000000000000 and 6148914691236517206, three
    \* times which is 2^64 + 2
    \/ LET HugeDims ==
              {<<49>>, <<50>> \o [i \in 1..13 |-> 48],
               <<49>> \o [i \in 1..14 |-> 48],
               <<54, 49, 52, 56, 57, 49, 52, 54, 57, 49, 50, 51, 54, 53, 49, 55,
                 50, 48, 54>>}
       IN \E m \in {"P3", "P6"}, w \in HugeDims, h \in HugeDims,
             rows \in {<<>>, <<49, 32, 50, 32, 51, 10>>} :
             Start(Nil, MagicBytes(m) \o <<10>> \o w \o <<32>> \o h \o <<10>>
                          \o Itoa(255) \o <<10>> \o rows,
                   [kind |-> "huge"])

InitPixel == \E b \in Canvases : Start(b, <<>>, NoSrc)

InitCanvas == Start(Blank(CanvasDim, CanvasDim, Paper), <<>>, NoSrc)

InitResize == \E b \in SmallBuffers({"P3"}, {255}) : Start(b, <<>>, NoSrc)

\* ppm.Save(filename)
Save ==
    /\ ppm # Nil
    /\ call.op = "none"
    /\ LET r == SaveFile(ppm)
       IN /\ file' = r.bytes
          /\ ret' = Returned(r.err, "")
    /\ src' = [kind |-> "Save", buf |-> ppm]
    /\ call' = [op |-> "Save"]
    /\ pre' = ppm
    /\ UNCHANGED <<ppm, plotted, loop, stdout, left, stack, leaves>>

\* ppm, err := ReadPPM(filename)
ReadPPM ==
    /\ call.op \in {"none", "Save"}
    /\ \E mem \in BOOLEAN :
          LET Result(r) == /\ ppm' = r.img
                           /\ ret' = Returned(r.err, r.panic)
          IN Result(ReadPPMFile(file, mem))
    /\ call' = [op |-> "ReadPPM"]
    /\ pre' = ppm
    /\ UNCHANGED <<file, src, plotted, loop, stdout, left, stack, leaves>>

\* ppm.Set(x, y, value)
SetCall ==
    /\ ppm # Nil
    /\ call.op = "none"
    /\ \E p \in Points :
          LET r == Set(ppm, p.X, p.Y, Ink)
          IN /\ ppm' = r.buf
             /\ ret' = Returned(NoErr, r.panic)
             /\ call' = [op |-> "Set", x |-> p.X, y |-> p.Y, value |-> Ink]
    /\ pre' = ppm
    /\ UNCHANGED <<file, src, plotted, loop, stdout, left, stack, leaves>>

\* ppm.SetPixel(p, color)
SetPixelCall ==
    /\ ppm # Nil
    /\ call.op = "none"
    /\ \E p \in Points :
          /\ ppm' = SetPixel(ppm, p, Ink)
          /\ call' = [op |-> "SetPixel", p |-> p, color |-> Ink]
    /\ ret' = Returned(NoErr, "")
    /\ pre' = ppm
    /\ UNCHANGED <<file, src, plotted, loop, stdout, left, stack, leaves>>

\* ppm.DrawFilledRectangle(p1, width, height, color)
DrawFilledRectangleCall ==
    /\ ppm # Nil
    /\ call.op = "none"
    /\ \E p1 \in Points, width \in Sizes, height \in Sizes :
          LET r == DrawFilledRectangle(ppm, p1, width, height, Ink)
          IN /\ ppm' = r.buf
             /\ ret' = Returned(NoErr, r.panic)
             /\ call' = [op |-> "DrawFilledRectangle", p1 |-> p1, width |-> width,
                         height |-> height, color |-> Ink]
    /\ pre' = ppm
    /\ UNCHANGED <<file, src, plotted, loop, stdout, left, stack, leaves>>

\* ppm.DrawLine(p1, p2, color): the call, up to the loop.  The ints are the
\* 64-bit ints of the source: p1 is a point near the canvas, p2 one too or,
\* with far = 1, a point whose X is 2^63 away from that (near the smallest
\* int, near the largest when X is negative).
DrawLineCall ==
    /\ ppm # Nil
    /\ call.op = "none"
    /\ \E p1 \in Points, p2 \in Points, far \in {0, 1} :
          /\ loop' = WideLineStart(Point(Wide(p1.X), Wide(p1.Y)),
                                   Point([k |-> far, v |-> p2.X], Wide(p2.Y)))
          /\ call' = [op |-> "DrawLine", p1 |-> Point(Wide(p1.X), Wide(p1.Y)),
                      p2 |-> Point([k |-> far, v |-> p2.X], Wide(p2.Y)),
                      color |-> Ink]
    /\ ret' = Running
    /\ pre' = ppm
    /\ UNCHANGED <<ppm, file, src, plotted, stdout, left, stack, leaves>>

\* ppm.DrawLine: one pass of the loop.  A line to a far point is followed
\* for MaxPasses passes.
DrawLineStep ==
    /\ loop # Nil
    /\ loop.x2.k = 1 => Len(plotted) < MaxPasses
    /\ LET d == WidePlot([buf |-> ppm, plotted |-> plotted], loop.x1, loop.y1,
                         call.color)
       IN /\ ppm' = d.buf
          /\ plotted' = d.plotted
    /\ IF loop.x1 = loop.x2 /\ loop.y1 = loop.y2
       THEN loop' = Nil /\ ret' = Returned(NoErr, "")
       ELSE loop' = WideLineStep(loop) /\ ret' = ret
    /\ UNCHANGED <<file, src, call, pre, stdout, left, stack, leaves>>

\* ppm.DrawTriangle(p1, p2, p3, color)
DrawTriangleCall ==
    /\ ppm # Nil
    /\ call.op = "none"
    /\ \E p1 \in Corners, p2 \in Corners, p3 \in Corners :
          LET d == DrawTriangle([buf |-> ppm, plotted |-> <<>>], p1, p2, p3, Ink)
          IN /\ ppm' = d.buf
             /\ plotted' = d.plotted
             /\ call' = [op |-> "DrawTriangle", p1 |-> p1, p2 |-> p2, p3 |-> p3,
                         color |-> Ink]
    /\ ret' = Returned(NoErr, "")
    /\ pre' = ppm
    /\ UNCHANGED <<file, src, loop, stdout, left, stack, leaves>>

\* ppm.DrawKochSnowflake(n, start, size, color)
DrawKochSnowflakeCall ==
    /\ ppm # Nil
    /\ call.op = "none"
    /\ \E n \in 0..MaxDepth, start \in Points, size \in Sizes :
          LET d == DrawKochSnowflake([buf |-> ppm, plotted |-> <<>>], n, start, size, Ink)
          IN /\ ppm' = d.buf
             /\ plotted' = d.plotted
             /\ call' = [op |-> "DrawKochSnowflake", n |-> n, start |-> start,
                         size |-> size, color |-> Ink]
    /\ ret' = Returned(NoErr, "")
    /\ pre' = ppm
    /\ UNCHANGED <<file, src, loop, stdout, left, stack, leaves>>

\* ppm.KNearestNeighbors(newWidth, newHeight)
KNearestNeighborsCall ==
    /\ ppm # Nil
    /\ call.op = "none"
    /\ \E newWidth \in Sizes, newHeight \in Sizes :
          LET r == KNearestNeighbors(ppm, newWidth, newHeight)
          IN /\ ppm' = r.buf
             /\ stdout' = stdout \o r.out
             /\ ret' = Returned(NoErr, r.panic)
             /\ call' = [op |-> "KNearestNeighbors", newWidth |-> newWidth,
                         newHeight |-> newHeight]
    /\ pre' = ppm
    /\ UNCHANGED <<file, src, plotted, loop, left, stack, leaves>>

(***************************************************************************)
(* Sequences of calls.  A run of SpecOps decodes an image file and then    *)
(* makes up to MaxOps calls on the buffer, each with arguments from the    *)
(* small sets below; a call that panics or does not return ends the run.   *)
(***************************************************************************)
MaxOps == 2

\* One image file for each width, height, format and max value: a
\* checkerboard of the two colours of the palette.
SeqInputs ==
    LET Checker(w, h, magic, max) ==
            PPM([y \in 1..h |-> [x \in 1..w |->
                    IF (x + y) % 2 = 0 THEN Pixel(255, 10, 0)
                    ELSE Pixel(7, 32, 10)]],
                w, h, magic, max)
    IN {Input(Checker(w, h, "P3", mx),
              Len(SaveRows(Checker(w, h, "P3", mx), 1)), {})
          : w \in {1, MaxDim}, h \in {MaxDim}, mx \in {0, 15, 255}}
       \cup {Input(Checker(MaxDim, 1, "P6", 255), MaxDim * 3, {})}

Ends == {Point(-1, -1), Point(0, 0), Point(1, MaxDim)}
Polygons == {<<>>, <<Point(0, 0)>>, <<Point(0, 0), Point(1, MaxDim), Point(0, 1)>>,
             <<Point(-1, -1), Point(1, 0), Point(1, MaxDim)>>}

InitOps == \E in \in SeqInputs : StartRun(Nil, InputFile(in), in, MaxOps)

CanCall ==
    /\ ppm # Nil
    /\ left > 0
    /\ loop = Nil
    /\ stack = <<>>
    /\ call.op = "none" \/ ret.done
    /\ ret.panic = ""

\* The call c of a sequence: buf is the buffer it leaves, panic its panic,
\* done whether it returns, points what it gave to SetPixel, out what it
\* printed.
Op(c, buf, panic, done, points, out) ==
    /\ ppm' = buf
    /\ call' = c
    /\ pre' = ppm
    /\ ret' = [err |-> NoErr, panic |-> panic, done |-> done]
    /\ plotted' = points
    /\ stdout' = stdout \o out
    /\ left' = left - 1
    /\ UNCHANGED <<file, src, loop, stack, leaves>>

SeqSet ==
    /\ CanCall
    /\ \E p \in Ends :
          LET r == Set(ppm, p.X, p.Y, Ink)
          IN Op([op |-> "Set", x |-> p.X, y |-> p.Y, value |-> Ink],
                r.buf, r.panic, TRUE, <<>>, <<>>)

SeqInvert ==
    /\ CanCall
    /\ Op([op |-> "Invert"], Invert(ppm), "", TRUE, <<>>, <<>>)

SeqFlip ==
    /\ CanCall
    /\ Op([op |-> "Flip"], Flip(ppm), "", TRUE, <<>>, <<>>)

SeqFlop ==
    /\ CanCall
    /\ Op([op |-> "Flop"], Flop(ppm), "", TRUE, <<>>, <<>>)

\* ppm.SetMagicNumber(magicNumber): any string is stored.
SeqSetMagicNumber ==
    /\ CanCall
    /\ \E magicNumber \in {"P3", "P5", "P6"} :
          Op([op |-> "SetMagicNumber", magicNumber |-> magicNumber],
             [ppm EXCEPT !.magicNumber = magicNumber], "", TRUE, <<>>, <<>>)

\* ppm.DrawPerlinNoise(color1, color2), on the buffers DrawPerlinNoise above
\* computes: at most 50 wide and high, as every buffer of SpecOps is.
SeqDrawPerlinNoise ==
    /\ CanCall
    /\ ppm.width <= 50 /\ ppm.height <= 50
    /\ \E color2 \in Palette :
          Op([op |-> "DrawPerlinNoise", color1 |-> Ink, color2 |-> color2],
             DrawPerlinNoise(ppm, Ink, color2), "", TRUE, <<>>, <<>>)

SeqSetMaxValue ==
    /\ CanCall
    /\ \E maxValue \in {1, 15, 255}, arch \in Archs :
          Op([op |-> "SetMaxValue", maxValue |-> maxValue, arch |-> arch],
             SetMaxValue(ppm, maxValue, arch), "", TRUE, <<>>, <<>>)

SeqRotate90CW ==
    /\ CanCall
    /\ Op([op |-> "Rotate90CW"], Rotate90CW(ppm), "", TRUE, <<>>, <<>>)

SeqKNearestNeighbors ==
    /\ CanCall
    /\ \E newWidth \in {0, MaxDim + 1}, newHeight \in {0, 1} :
          LET r == KNearestNeighbors(ppm, newWidth, newHeight)
          IN Op([op |-> "KNearestNeighbors", newWidth |-> newWidth,
                 newHeight |-> newHeight],
                r.buf, r.panic, TRUE, <<>>, r.out)

SeqDrawLine ==
    /\ CanCall
    /\ \E p1 \in Ends, p2 \in Ends :
          LET d == DrawLine(Drawing(ppm), p1, p2, Ink)
          IN Op([op |-> "DrawLine", p1 |-> p1, p2 |-> p2, color |-> Ink],
                d.buf, "", TRUE, d.plotted, <<>>)

SeqDrawTriangle ==
    /\ CanCall
    /\ \E p1 \in Ends, p2 \in Ends :
          LET d == DrawTriangle(Drawing(ppm), p1, p2, Point(0, 1), Ink)
          IN Op([op |-> "DrawTriangle", p1 |-> p1, p2 |-> p2, p3 |-> Point(0, 1),
                 color |-> Ink],
                d.buf, "", TRUE, d.plotted, <<>>)

SeqDrawRectangle ==
    /\ CanCall
    /\ \E p1 \in Ends, width \in {1, MaxDim + 1} :
          LET d == DrawRectangle(Drawing(ppm), p1, width, 1, Ink)
          IN Op([op |-> "DrawRectangle", p1 |-> p1, width |-> width,
                 height |-> 1, color |-> Ink],
                d.buf, "", TRUE, d.plotted, <<>>)

SeqDrawPolygon ==
    /\ CanCall
    /\ \E points \in Polygons :
          LET d == DrawPolygon(Drawing(ppm), points, Ink)
          IN Op([op |-> "DrawPolygon", points |-> points, color |-> Ink],
                d.buf, d.panic, TRUE, d.plotted, <<>>)

\* The vertices are sorted by Y before anything is drawn: of the two orders
\* of p1 and p2 the sequence takes one.
SeqDrawFilledTriangle ==
    /\ CanCall
    /\ \E p1 \in Ends, p2 \in Ends, arch \in Archs :
          LET d == DrawFilledTriangle(Drawing(ppm), p1, p2, Point(0, 1), Ink, arch)
          IN /\ p1.Y <= p2.Y
             /\ Op([op |-> "DrawFilledTriangle", p1 |-> p1, p2 |-> p2,
                     p3 |-> Point(0, 1),
                     color |-> Ink, arch |-> arch],
                    d.buf, "", ~d.hung, d.plotted, <<>>)

SeqDrawFilledRectangle ==
    /\ CanCall
    /\ \E p1 \in Ends, width \in {1, MaxDim + 1} :
          LET r == DrawFilledRectangle(ppm, p1, width, 1, Ink)
          IN Op([op |-> "DrawFilledRectangle", p1 |-> p1, width |-> width,
                 height |-> 1, color |-> Ink],
                r.buf, r.panic, TRUE, <<>>, <<>>)

SeqDrawCircle ==
    /\ CanCall
    /\ \E center \in Ends, radius \in {-1, 1} :
          Op([op |-> "DrawCircle", center |-> center, radius |-> radius,
              color |-> Ink],
             DrawCircle(ppm, center, radius, Ink), "", TRUE, <<>>, <<>>)

SeqDrawFilledCircle ==
    /\ CanCall
    /\ \E center \in Ends, radius \in {-1, 1} :
          Op([op |-> "DrawFilledCircle", center |-> center, radius |-> radius,
              color |-> Ink],
             DrawFilledCircle(ppm, center, radius, Ink), "", TRUE, <<>>, <<>>)

SeqDrawFilledPolygon ==
    /\ CanCall
    /\ \E points \in Polygons :
          LET d == DrawFilledPolygon(Drawing(ppm), points, Ink)
          IN Op([op |-> "DrawFilledPolygon", points |-> points, color |-> Ink],
                d.buf, d.panic, TRUE, d.plotted, <<>>)

NextOps ==
    \/ ReadPPM
    \/ SeqSet \/ SeqInvert \/ SeqFlip \/ SeqFlop \/ SeqSetMaxValue
    \/ SeqRotate90CW \/ SeqKNearestNeighbors
    \/ SeqSetMagicNumber \/ SeqDrawPerlinNoise
    \/ SeqDrawLine \/ SeqDrawTriangle \/ SeqDrawRectangle \/ SeqDrawPolygon
    \/ SeqDrawFilledTriangle \/ SeqDrawFilledRectangle
    \/ SeqDrawCircle \/ SeqDrawFilledCircle \/ SeqDrawFilledPolygon

SpecOps == InitOps /\ [][NextOps]_vars

\* The decode and then only calls of SetMaxValue.
SpecIntensity == InitOps /\ [][ReadPPM \/ SeqSetMaxValue]_vars

(***************************************************************************)
(* DrawFilledTriangle alone, on the canvas, for every triple of vertices   *)
(* on and around it.                                                       *)
(***************************************************************************)
\* ppm.DrawFilledTriangle(p1, p2, p3, color)
DrawFilledTriangleCall ==
    /\ ppm # Nil
    /\ call.op = "none"
    /\ \E p1x \in (-1)..CanvasDim, p1y \in (-1)..(CanvasDim - 1),
          p2x \in (-1)..CanvasDim, p2y \in (-1)..(CanvasDim - 1),
          p3x \in (-1)..CanvasDim, p3y \in (-1)..(CanvasDim - 1),
          arch \in Archs :
          LET p1 == Point(p1x, p1y)
              p2 == Point(p2x, p2y)
              p3 == Point(p3x, p3y)
              d == DrawFilledTriangle(Drawing(ppm), p1, p2, p3, Ink, arch)
          IN /\ ppm' = d.buf
             /\ plotted' = d.plotted
             /\ ret' = [err |-> NoErr, panic |-> "", done |-> ~d.hung]
             /\ call' = [op |-> "DrawFilledTriangle", p1 |-> p1, p2 |-> p2,
                         p3 |-> p3, color |-> Ink, arch |-> arch]
    /\ pre' = ppm
    /\ UNCHANGED <<file, src, loop, stdout, left, stack, leaves>>

(***************************************************************************)
(* The fractals call by call.  A recursion that does not end is followed   *)
(* until MaxStack frames are on the stack; a recursion from a depth of at   *)
(* most MaxDepth needs MaxDepth + 2 frames.                                *)
(***************************************************************************)
MaxStack == 4

\* ppm.DrawKochSnowflake(n, start, size, color): the call, up to its first
\* call of KochSnowflake
DrawKochSnowflakeEnter ==
    /\ ppm # Nil
    /\ call.op = "none"
    /\ \E n \in (-1)..MaxDepth, start \in Corners, size \in Sizes :
          /\ stack' = <<Frame("DrawKochSnowflake", n, KochBase(start, size))>>
          /\ call' = [op |-> "DrawKochSnowflake", n |-> n, start |-> start,
                      size |-> size, color |-> Ink, arch |-> "any"]
    /\ ret' = Running
    /\ pre' = ppm
    /\ UNCHANGED <<ppm, file, src, plotted, loop, stdout, left, leaves>>

\* ppm.DrawSierpinskiTriangle(n, start, width, color): the call, up to its
\* call of sierpinskiTools
DrawSierpinskiTriangleEnter ==
    /\ ppm # Nil
    /\ call.op = "none"
    /\ \E n \in (-1)..MaxDepth, start \in Corners, width \in Sizes, arch \in Archs :
          /\ stack' = <<Frame("DrawSierpinskiTriangle", n,
                              SierpinskiBase(start, width))>>
          /\ call' = [op |-> "DrawSierpinskiTriangle", n |-> n, start |-> start,
                      size |-> width, color |-> Ink, arch |-> arch]
    /\ ret' = Running
    /\ pre' = ppm
    /\ UNCHANGED <<ppm, file, src, plotted, loop, stdout, left, leaves>>

\* The frame on top makes its next call.
RecursiveCall ==
    /\ stack # <<>>
    /\ Len(stack) < MaxStack
    /\ LET top == stack[Len(stack)]
       IN /\ ~IsLeaf(top)
          /\ top.pc < Len(Calls(top))
          /\ stack' = Append(stack, Calls(top)[top.pc + 1])
    /\ UNCHANGED <<ppm, file, src, call, pre, ret, plotted, loop, stdout, left,
                   leaves>>

\* The frame on top, with n = 0, has its drawing call to make.
LeafPending ==
    /\ stack # <<>>
    /\ IsLeaf(stack[Len(stack)])
    /\ stack[Len(stack)].pc = 0

\* The frame on top, with n = 0, draws (DrawLine, DrawFilledTriangle) and
\* returns; a DrawFilledTriangle that does not return leaves it on the stack
\* with pc = 1.
LeafCall ==
    /\ LeafPending
    /\ LET top == stack[Len(stack)]
           d0 == [buf |-> ppm, plotted |-> plotted]
           line == DrawLine(d0, top.points[1], top.points[2], call.color)
           fill == DrawFilledTriangle(d0, top.points[1], top.points[2],
                                      top.points[3], call.color, call.arch)
           hung == top.fn = "sierpinskiTools" /\ fill.hung
           d == IF top.fn = "KochSnowflake" THEN line ELSE fill
       IN /\ ppm' = d.buf
          /\ plotted' = d.plotted
          /\ stack' = IF hung THEN [stack EXCEPT ![Len(stack)].pc = 1]
                      ELSE Popped(stack)
    /\ leaves' = leaves + 1
    /\ UNCHANGED <<file, src, call, pre, ret, loop, stdout, left>>

\* The frame on top has made all its calls and returns.
Return ==
    /\ stack # <<>>
    /\ LET top == stack[Len(stack)]
       IN /\ ~IsLeaf(top)
          /\ top.pc = Len(Calls(top))
    /\ stack' = Popped(stack)
    /\ ret' = IF Len(stack) = 1 THEN Returned(NoErr, "") ELSE ret
    /\ UNCHANGED <<ppm, file, src, call, pre, plotted, loop, stdout, left, leaves>>

NextFractal ==
    \/ DrawKochSnowflakeEnter \/ DrawSierpinskiTriangleEnter
    \/ RecursiveCall \/ LeafCall \/ Return

SpecFill == InitCanvas /\ [][DrawFilledTriangleCall]_vars
SpecFractal == InitCanvas /\ [][NextFractal]_vars

NextCodec == Save \/ ReadPPM
NextPixel == SetCall \/ SetPixelCall \/ DrawFilledRectangleCall
NextLine == DrawLineCall \/ DrawLineStep
NextShape == DrawTriangleCall \/ DrawKochSnowflakeCall
NextResize == KNearestNeighborsCall

SpecCodec == InitCodec /\ [][NextCodec]_vars
SpecPixel == InitPixel /\ [][NextPixel]_vars
SpecLine == InitCanvas /\ [][NextLine]_vars
SpecShape == InitCanvas /\ [][NextShape]_vars
SpecResize == InitResize /\ [][NextResize]_vars

Init == InitCanvas \/ InitOps
Next ==
    \/ NextCodec \/ NextPixel \/ NextLine \/ NextShape \/ NextResize
    \/ NextOps \/ DrawFilledTriangleCall \/ NextFractal
Spec == Init /\ [][Next]_vars

(***************************************************************************)
(* Properties.  What the last call was about, for the formulas below.      *)
(***************************************************************************)
\* The bytes of the pixel region of an input file: the last src.n bytes.
Region == SubSeq(file, Len(file) - src.n + 1, Len(file))

DecodedInput(magic) ==
    /\ call.op = "ReadPPM"
    /\ src.kind = "input"
    /\ src.buf.magicNumber = magic

Uniform(buf, c) ==
    \A y \in 1..buf.height : \A x \in 1..buf.width : buf.data[y][x] = c

\* C1: the buffer ReadPPM decodes from the bytes Save wrote for a P3 or P6
\* buffer b is b: same width, height, magic number, max value and pixels.
C1_RoundTrip ==
    (call.op = "ReadPPM" /\ src.kind = "Save"
        /\ src.buf.magicNumber \in {"P3", "P6"})
    => (ret.err = NoErr /\ ppm = src.buf)

\* C2: a P6 file whose header declares w and h and is followed by exactly
\* w*h*3 bytes decodes to a w x h buffer whose pixel (x,y) is the three bytes
\* at offset 3*(y*w+x) of the pixel region, whatever their values.
C2_BinaryDecode ==
    (DecodedInput("P6") /\ src.comments = {}
        /\ src.n = src.buf.width * src.buf.height * 3)
    => /\ ret.err = NoErr
       /\ ppm # Nil
       /\ ppm.width = src.buf.width
       /\ ppm.height = src.buf.height
       /\ \A y \in 0..(src.buf.height - 1) : \A x \in 0..(src.buf.width - 1) :
             LET o == 3 * (y * src.buf.width + x)
             IN ppm.data[y + 1][x + 1]
                  = Pixel(Region[o + 1], Region[o + 2], Region[o + 3])

\* C3: a P6 file whose pixel region holds n < w*h*3 bytes does not decode:
\* ReadPPM gives no buffer and an error naming row n / (w*3), the first row
\* that is not complete.
C3_TruncatedBinary ==
    (DecodedInput("P6") /\ src.comments = {}
        /\ src.n < src.buf.width * src.buf.height * 3)
    => /\ ppm = Nil
       /\ ret.err # NoErr
       /\ Len(ret.err.args) >= 1
       /\ ret.err.args[1] = src.n \div (src.buf.width * 3)

\* C4: a file with comment lines between the magic number, the dimensions
\* and the max value decodes to the buffer the file without them decodes to.
C4_CommentsSkipped ==
    (call.op = "ReadPPM" /\ src.kind = "input" /\ src.comments # {})
    => /\ ret.err = NoErr
       /\ ppm = ReadPPMFile(InputFile([src EXCEPT !.comments = {}]), TRUE).img

\* What "outside the canvas" is for the last Set or SetPixel.
SetOutside ==
    /\ call.op = "Set"
    /\ ~InCanvas(pre, call.x, call.y)

SetPixelOutside ==
    /\ call.op = "SetPixel"
    /\ ~InCanvas(pre, call.p.X, call.p.Y)

C6_FilledRectangleClips ==
    (call.op = "DrawFilledRectangle"
        /\ (call.p1.X < 0 \/ call.p1.Y < 0
            \/ call.p1.X + call.width > pre.width
            \/ call.p1.Y + call.height > pre.height))
    => /\ ret.panic = ""
       /\ \A y \in 0..(pre.height - 1) : \A x \in 0..(pre.width - 1) :
             /\ (call.p1.X <= x /\ x < call.p1.X + call.width
                 /\ call.p1.Y <= y /\ y < call.p1.Y + call.height)
                => ppm.data[y + 1][x + 1] = call.color
             /\ (x < call.p1.X \/ x > call.p1.X + call.width
                 \/ y < call.p1.Y \/ y > call.p1.Y + call.height)
                => ppm.data[y + 1][x + 1] = pre.data[y + 1][x + 1]

\* C7: KNearestNeighbors with newWidth <= 0 or newHeight <= 0 leaves the
\* buffer (width, height, pixels) as it was and reports the invalid
\* argument to its caller: the caller gets an error or a panic.
C7_ResizeInvalid ==
    (call.op = "KNearestNeighbors"
        /\ (call.newWidth <= 0 \/ call.newHeight <= 0))
    => /\ ppm = pre
       /\ ret.err # NoErr \/ ret.panic # ""

\* C8: KNearestNeighbors of a buffer whose pixels all equal C, to a positive
\* newWidth and newHeight, gives newHeight rows of newWidth pixels, all C.
C8_ResizeUniform ==
    \A c \in Palette :
       (call.op = "KNearestNeighbors" /\ call.newWidth > 0
           /\ call.newHeight > 0 /\ Uniform(pre, c))
       => /\ ret.panic = ""
          /\ ppm.width = call.newWidth
          /\ ppm.height = call.newHeight
          /\ Len(ppm.data) = call.newHeight
          /\ \A y \in 1..call.newHeight :
                /\ Len(ppm.data[y]) = call.newWidth
                /\ \A x \in 1..call.newWidth : ppm.data[y][x] = c

C8_Witness ==
    /\ call.op = "KNearestNeighbors"
    /\ call.newWidth > pre.width
    /\ call.newHeight > pre.height
    /\ pre.width > 1
    /\ Uniform(pre, Paper)
    /\ Uniform(ppm, Paper)

\* C9: DrawKochSnowflake with depth 0 does what DrawTriangle does on the
\* three corners of the base triangle: the same points plotted in the same
\* order, the same buffer after it.
C9_KochZeroIsTriangle ==
    (call.op = "DrawKochSnowflake" /\ call.n = 0)
    => LET b == KochBase(call.start, call.size)
           t == DrawTriangle([buf |-> pre, plotted |-> <<>>],
                             b[1], b[2], b[3], call.color)
       IN ppm = t.buf /\ plotted = t.plotted

C9_Witness ==
    /\ call.op = "DrawKochSnowflake"
    /\ call.n = 0
    /\ call.size > 1
    /\ ppm # pre

\* C10: DrawLine ends, for every pair of points; the points it plots start
\* at p1, move by at most one in x and in y from each to the next, are never
\* more than max(|x2-x1|, |y2-y1|) + 1, and when it ends are exactly that
\* many, the last one p2 (so one point, p1, when p1 = p2).  Until it ends a
\* pass of its loop is pending and plots one point more.  That many points
\* with such moves reach p2 only when every move is one towards p2 along
\* the longer axis: to a point whose X is 2^63 away that axis is X, and the
\* line has not ended after the passes followed.
C10_LinePoints ==
    call.op = "DrawLine"
    => LET x1 == call.p1.X.v
           y1 == call.p1.Y.v
           x2 == call.p2.X.v
           y2 == call.p2.Y.v
           m == Max(DrawLinetool(x2 - x1), DrawLinetool(y2 - y1))
           n == Len(plotted)
       IN /\ n >= 1 => plotted[1] = Point(x1, y1)
          /\ \A i \in 1..(n - 1) :
                /\ DrawLinetool(plotted[i + 1].X - plotted[i].X) <= 1
                /\ DrawLinetool(plotted[i + 1].Y - plotted[i].Y) <= 1
                /\ plotted[i + 1] # plotted[i]
          /\ IF call.p2.X.k = 0
             THEN /\ n <= m + 1
                  /\ ret.done => (n = m + 1 /\ plotted[n] = Point(x2, y2)
                                  /\ loop = Nil)
                  /\ ~ret.done => (n <= m /\ loop # Nil /\ ENABLED DrawLineStep)
             ELSE /\ \A i \in 1..(n - 1) :
                        plotted[i + 1].X - plotted[i].X
                          = IF WideLess(call.p1.X, call.p2.X) THEN 1 ELSE -1
                  /\ ~ret.done
                  /\ loop # Nil

\* The nine drawing operations.
DrawingOps ==
    {"DrawLine", "DrawTriangle", "DrawRectangle", "DrawPolygon",
     "DrawFilledTriangle", "DrawFilledRectangle", "DrawCircle",
     "DrawFilledCircle", "DrawFilledPolygon"}

\* C11: a drawing operation, whatever its points, sizes and radii, on or off
\* the canvas, returns without a panic and leaves the width and the height
\* of the buffer as they were (a polygon being one of at least one point).
C11_DrawingNeverFails ==
    (call.op \in DrawingOps
        /\ (call.op \in {"DrawPolygon", "DrawFilledPolygon"} => call.points # <<>>))
    => /\ ret.done
       /\ ret.panic = ""
       /\ ppm.width = pre.width
       /\ ppm.height = pre.height

\* The pixel grid of buf has height rows of width pixels, both positive.
SizeInvariant(buf) ==
    /\ buf.width > 0
    /\ buf.height > 0
    /\ Len(buf.data) = buf.height
    /\ \A y \in 1..Len(buf.data) : Len(buf.data[y]) = buf.width

\* C12: after the decode and after every call of a sequence of calls on the
\* decoded buffer, the grid has height rows of width pixels, width and
\* height positive; Rotate90CW swaps width and height, a resize to a
\* positive size sets them to the size asked for, a resize to another size
\* leaves them.
C12_SizeInvariant ==
    (ppm # Nil /\ call.op # "none")
    => /\ SizeInvariant(ppm)
       /\ call.op = "Rotate90CW"
            => (ppm.width = pre.height /\ ppm.height = pre.width)
       /\ call.op = "KNearestNeighbors"
            => IF call.newWidth > 0 /\ call.newHeight > 0
               THEN ppm.width = call.newWidth /\ ppm.height = call.newHeight
               ELSE ppm.width = pre.width /\ ppm.height = pre.height

C12_Witness ==
    /\ call.op = "Rotate90CW"
    /\ left = 0
    /\ ppm.height = MaxDim + 1
    /\ ppm.width = 1
    /\ SizeInvariant(ppm)

\* C13: in the buffer a decode gives, and after every SetMaxValue(m) of a
\* sequence of them with m in 1..255, max is in 1..255 and no channel of a
\* pixel is larger than max.
C13_IntensityInvariant ==
    (ppm # Nil /\ call.op \in {"ReadPPM", "SetMaxValue"})
    => /\ ppm.max \in 1..255
       /\ \A y \in 1..ppm.height : \A x \in 1..ppm.width :
             /\ ppm.data[y][x].R <= ppm.max
             /\ ppm.data[y][x].G <= ppm.max
             /\ ppm.data[y][x].B <= ppm.max

\* x is a point of the edge from a to b at the height y: y is between the
\* ends of the edge and x is less than one pixel from the edge.
OnEdge(x, y, a, b) ==
    /\ Min(a.Y, b.Y) <= y
    /\ y <= Max(a.Y, b.Y)
    /\ IF a.Y = b.Y THEN Min(a.X, b.X) <= x /\ x <= Max(a.X, b.X)
       ELSE DrawLinetool((x - a.X) * (b.Y - a.Y) - (y - a.Y) * (b.X - a.X))
              < DrawLinetool(b.Y - a.Y)

\* C14: DrawFilledTriangle divides by no zero (every intersection it computes
\* is finite), returns, and on every scanline y from the top to the bottom
\* vertex the leftmost and the rightmost point it plots are points of edges
\* of the triangle at y; every pixel it changes is inside the bounding box
\* of the three vertices.
C14_FilledTriangle ==
    call.op = "DrawFilledTriangle"
    => LET v == <<call.p1, call.p2, call.p3>>
           top == Min(v[1].Y, Min(v[2].Y, v[3].Y))
           bottom == Max(v[1].Y, Max(v[2].Y, v[3].Y))
           left_ == Min(v[1].X, Min(v[2].X, v[3].X))
           right == Max(v[1].X, Max(v[2].X, v[3].X))
           Edge(x, y) == \E i \in 1..3 : OnEdge(x, y, v[i], v[(i % 3) + 1])
       IN /\ ~DrawFilledTriangle(Drawing(pre), v[1], v[2], v[3], call.color,
                                 call.arch).nonfinite
          /\ ret.done
          /\ \A y \in top..bottom :
                LET xs == {plotted[i].X : i \in {j \in 1..Len(plotted) :
                                                   plotted[j].Y = y}}
                IN /\ xs # {}
                   /\ \A x \in xs :
                         (\A z \in xs : x <= z) \/ (\A z \in xs : z <= x)
                            => Edge(x, y)
          /\ \A y \in 0..(pre.height - 1) : \A x \in 0..(pre.width - 1) :
                ppm.data[y + 1][x + 1] # pre.data[y + 1][x + 1]
                   => /\ left_ <= x /\ x <= right
                      /\ top <= y /\ y <= bottom

\* b to the power e.
RECURSIVE Pow(_, _)
Pow(b, e) == IF e <= 0 THEN 1 ELSE b * Pow(b, e - 1)

\* C15: the recursion of a fractal called with depth n nests no deeper than
\* n (the calls KochSnowflake and sierpinskiTools make to themselves; none
\* when n < 0), each of these calls has the depth of its caller less one,
\* and the recursion ends: until the fractal has returned a call or a
\* return is pending.  With n >= 0 a snowflake that has returned has made
\* 4^n calls of DrawLine for each of its three edges, a gasket 3^n calls of
\* DrawFilledTriangle.
C15_RecursionBounded ==
    call.op \in {"DrawKochSnowflake", "DrawSierpinskiTriangle"}
    => /\ Len(stack) - 2 <= Max(call.n, 0)
       /\ \A i \in 2..(Len(stack) - 1) : stack[i + 1].n = stack[i].n - 1
       /\ ret.done \/ LeafPending \/ ENABLED RecursiveCall \/ ENABLED Return
       /\ (ret.done /\ call.n >= 0)
            => leaves = IF call.op = "DrawKochSnowflake"
                        THEN 3 * Pow(4, call.n) ELSE Pow(3, call.n)

====
